---- MODULE Spec2Model ----
(***************************************************************************)
(* The approval-gated release pipeline of the status-report automation:    *)
(*   scripts/send-email.mjs (with approval button), its predecessor        *)
(*   without the button, scripts/utils/approval-token.mjs,                 *)
(*   scripts/fetch-notion-data.mjs, and the parts of the pipeline the      *)
(*   scripts talk to (the review workflow, the api/approve handler, the    *)
(*   downstream workflow dispatch).                                        *)
(*                                                                         *)
(* Strings are sequences of one-character strings.  An environment         *)
(* variable that is unset is the empty sequence: the scripts test every    *)
(* variable with `!X` or `=== 'true'`, which do not tell undefined from    *)
(* ''.                                                                     *)
(***************************************************************************)
EXTENDS Integers, Sequences, FiniteSets, TLC

(***************************************************************************)
(* Bounds of the model.                                                    *)
(***************************************************************************)
MaxIdLen == 2
MaxRuns == 2
MaxRequests == 2
MaxClock == 25
MaxItems == 2
MaxOverflow == 1
MaxChecks == 2

(***************************************************************************)
(* The state.                                                              *)
(***************************************************************************)
VARIABLES
  now,        \* the clock, in hours
  pr,         \* pr[i]: the review state of the draft of pipeline run i
  master,     \* NOTION_PROJECT_STATUS.html on the main branch
  previewJob, \* previewJob[i]: the send job the merge of draft i starts
  reqs,       \* reqs[k]: the k-th request to the Dispatch Trigger
  bjob,       \* bjob[k]: the broadcast job the trigger call of request k starts
  outbox,     \* the messages handed to the mail transport
  config,     \* the deployment: recipient secrets and report template
  fn,         \* a call of the Token Service on inputs of the caller's choice
  proc        \* a run of one of the scripts on an environment of the caller's choice

vars == <<now, pr, master, previewJob, reqs, bjob, outbox, config, fn, proc>>

(***************************************************************************)
(* Characters and strings.                                                 *)
(***************************************************************************)
Digits == <<"0", "1", "2", "3", "4", "5", "6", "7", "8", "9">>
HexLower == Digits \o <<"a", "b", "c", "d", "e", "f">>
HexChars == {HexLower[i] : i \in 1..16} \cup {"A", "B", "C", "D", "E", "F"}

\* The characters a run id, a secret or a deployment URL is drawn from; the
\* position of a character in it is its code in the keyed hash below.
Alphabet == <<"1", "2", "3", "4", "&", "+", "%", "#", "=", "k", "x", "h", ":", "/", "?", "v">>

CharCode(c) == CHOOSE i \in 1..Len(Alphabet) : Alphabet[i] = c

RECURSIVE StrCode(_)
StrCode(s) ==
  IF s = <<>> THEN 0
  ELSE StrCode(SubSeq(s, 1, Len(s) - 1)) * (Len(Alphabet) + 1) + CharCode(s[Len(s)])

RECURSIVE Pow(_, _)
Pow(b, n) == IF n = 0 THEN 1 ELSE b * Pow(b, n - 1)

\* String.prototype.indexOf(c), 1-based; 0 when c does not occur.
IndexOf(s, c) ==
  LET at == {i \in 1..Len(s) : s[i] = c}
  IN  IF at = {} THEN 0 ELSE CHOOSE i \in at : \A j \in at : i <= j

RECURSIVE Split(_, _)
\* String.prototype.split(c).
Split(s, c) ==
  LET i == IndexOf(s, c)
  IN  IF i = 0 THEN <<s>>
      ELSE <<SubSeq(s, 1, i - 1)>> \o Split(SubSeq(s, i + 1, Len(s)), c)

RECURSIVE TrimLeft(_)
TrimLeft(s) == IF s # <<>> /\ s[1] = " " THEN TrimLeft(Tail(s)) ELSE s

RECURSIVE TrimRight(_)
TrimRight(s) ==
  IF s # <<>> /\ s[Len(s)] = " " THEN TrimRight(SubSeq(s, 1, Len(s) - 1)) ELSE s

\* String.prototype.trim().
Trim(s) == TrimRight(TrimLeft(s))

(***************************************************************************)
(* Token Service: scripts/utils/approval-token.mjs.                        *)
(***************************************************************************)
\* Length of a hex-encoded SHA-256 digest.
DigestHexLen == 64

\* The lower-case hexadecimal numeral of n (below 16^8) on `width` digits.
ToHex(n, width) ==
  [i \in 1..width |->
     IF width - i >= 8 THEN "0"
     ELSE HexLower[((n \div Pow(16, width - i)) % 16) + 1]]

\* crypto.createHmac('sha256', key).update(msg).digest('hex'): a keyed hash,
\* modelled as collision-free on the bounded domain (every (key, msg) pair
\* has a digest of its own), in lower-case hex.
HmacSha256Hex(key, msg) ==
  ToHex(StrCode(key) * Pow(Len(Alphabet) + 1, MaxIdLen + 1) + StrCode(msg),
        DigestHexLen)

\* A signer that never feeds the run id to the hash.
generateApprovalToken_noUpdate(runId, secret) == HmacSha256Hex(secret, <<>>)

\* A signer that mixes the hour of the call into the key.
generateApprovalToken_timestamped(runId, secret) ==
  HmacSha256Hex(secret \o <<Digits[(now % 4) + 2]>>, runId)

\* A signer that keys the hash with the empty string.
generateApprovalToken_noKey(runId, secret) == HmacSha256Hex(<<>>, runId)

generateApprovalToken(runId, secret) == HmacSha256Hex(secret, runId)

ApprovePath ==
  <<"/", "a", "p", "i", "/", "a", "p", "p", "r", "o", "v", "e">>
TokenKey == <<"t", "o", "k", "e", "n">>
RunIdKey == <<"r", "u", "n", "_", "i", "d">>

buildApprovalUrl(runId, token, deploymentUrl) ==
  deploymentUrl \o ApprovePath \o <<"?">> \o TokenKey \o <<"=">> \o token
    \o <<"&">> \o RunIdKey \o <<"=">> \o runId

\* verify(runId, candidateSignature, secret): recompute and compare.
verify(runId, candidate, secret) == candidate = generateApprovalToken(runId, secret)

(***************************************************************************)
(* The query string of a request, as the platform hands it to the          *)
(* api/approve handler (req.query).                                        *)
(***************************************************************************)
Absent == [present |-> FALSE, multi |-> FALSE, val |-> <<>>]
Given(v) == [present |-> TRUE, multi |-> FALSE, val |-> v]
Repeated == [present |-> TRUE, multi |-> TRUE, val |-> <<>>]

\* The character a valid escape %XY stands for.
PctChar(x, y) ==
  CASE <<x, y>> = <<"2", "6">> -> "&"
    [] <<x, y>> = <<"2", "3">> -> "#"
    [] <<x, y>> = <<"2", "5">> -> "%"
    [] <<x, y>> = <<"2", "0">> -> " "
    [] OTHER -> "\\x" \o x \o y

\* Form decoding of a key or a value: '+' is a space, %XY is the escaped
\* character, a malformed escape is kept as it is.
Unescape(s) ==
  LET escapes == {i \in 1..Len(s) : /\ s[i] = "%"
                                    /\ i + 2 <= Len(s)
                                    /\ s[i + 1] \in HexChars
                                    /\ s[i + 2] \in HexChars}
      kept == SelectSeq([i \in 1..Len(s) |-> i],
                        LAMBDA i : (i - 1) \notin escapes /\ (i - 2) \notin escapes)
      decoded(i) == IF i \in escapes THEN PctChar(s[i + 1], s[i + 2])
                    ELSE IF s[i] = "+" THEN " "
                    ELSE s[i]
  IN  [j \in 1..Len(kept) |-> decoded(kept[j])]

\* The query of a URL: what follows the first '?', the fragment cut off
\* (a client never sends the fragment).
QueryOf(url) ==
  LET h == IndexOf(url, "#")
      u == IF h = 0 THEN url ELSE SubSeq(url, 1, h - 1)
      q == IndexOf(u, "?")
  IN  IF q = 0 THEN <<>> ELSE SubSeq(u, q + 1, Len(u))

\* The decoded [key, val] pairs of a query, in order.
QueryPairs(query) ==
  LET parts == Split(query, "&")
      pair(p) == LET e == IndexOf(p, "=")
                 IN  IF e = 0 THEN [key |-> Unescape(p), val |-> <<>>]
                     ELSE [key |-> Unescape(SubSeq(p, 1, e - 1)),
                           val |-> Unescape(SubSeq(p, e + 1, Len(p)))]
  IN  [i \in {j \in 1..Len(parts) : parts[j] # <<>>} |-> pair(parts[i])]

\* req.query[key]: absent, the value, or (a repeated key) an array.
QueryParam(url, key) ==
  LET ps == QueryPairs(QueryOf(url))
      at == {i \in DOMAIN ps : ps[i].key = key}
  IN  IF at = {} THEN Absent
      ELSE IF Cardinality(at) > 1 THEN Repeated
      ELSE Given(ps[CHOOSE i \in at : TRUE].val)

\* The request a client makes by following a link.
RequestOf(url) ==
  [token |-> QueryParam(url, TokenKey), runId |-> QueryParam(url, RunIdKey)]

(***************************************************************************)
(* Report HTML.  A document is a sequence of fragments; the fragments told *)
(* apart are the ones injectApprovalButton looks at: "<body" (the five     *)
(* characters, lower case), "<BODY" (the same in another case), ">" and    *)
(* "t" (any text holding none of them).  The banner is one fragment        *)
(* carrying the URL of its link.  No string of the model holds a '$', so   *)
(* the replacement string of String.prototype.replace has no pattern.      *)
(***************************************************************************)
Frag(k) == [k |-> k, href |-> <<>>]
Banner(url) == [k |-> "banner", href |-> url]

IsBanner(f) == f.k = "banner"
HasBanner(html) == \E i \in 1..Len(html) : IsBanner(html[i])

\* htmlContent.includes('<body')
IncludesBody(html) == \E i \in 1..Len(html) : html[i].k = "<body"

\* The end of the first match of /(<body[^>]*>)/i, 0 when nothing matches.
BodyTagEnd(html) ==
  LET starts == {i \in 1..Len(html) : html[i].k \in {"<body", "<BODY"}}
      ends(i) == {j \in (i + 1)..Len(html) : html[j].k = ">"}
      ok == {i \in starts : ends(i) # {}}
  IN  IF ok = {} THEN 0
      ELSE LET i == CHOOSE a \in ok : \A b \in ok : a <= b
           IN  CHOOSE j \in ends(i) : \A l \in ends(i) : j <= l

injectApprovalButton(htmlContent, env) ==
  LET token == generateApprovalToken(env.GITHUB_RUN_ID, env.APPROVAL_TOKEN_SECRET)
      approvalUrl == buildApprovalUrl(env.GITHUB_RUN_ID, token, env.VERCEL_DEPLOYMENT_URL)
      approvalButtonHtml == <<Banner(approvalUrl)>>
      e == BodyTagEnd(htmlContent)
  IN  IF IncludesBody(htmlContent)
      THEN IF e = 0 THEN htmlContent
           ELSE SubSeq(htmlContent, 1, e) \o approvalButtonHtml
                  \o SubSeq(htmlContent, e + 1, Len(htmlContent))
      ELSE approvalButtonHtml \o htmlContent

(***************************************************************************)
(* scripts/send-email.mjs, with the approval button.                       *)
(***************************************************************************)
True == <<"t", "r", "u", "e">>

\* The report file is absent, or holds a document.
NoFile == [exists |-> FALSE, html |-> <<>>]
File(html) == [exists |-> TRUE, html |-> html]

\* EMAIL_RECIPIENTS.split(',').map(e => e.trim()).filter(e => e.length > 0)
\* A parse that keeps the empty entries.
ParseRecipients_keepEmpty(value) ==
  LET parts == Split(value, ",")
  IN  [i \in 1..Len(parts) |-> Trim(parts[i])]

\* EMAIL_RECIPIENTS.split(',').map(e => e.trim()).filter(e => e.length > 0)
ParseRecipients(value) ==
  LET parts == Split(value, ",")
  IN  SelectSeq([i \in 1..Len(parts) |-> Trim(parts[i])], LAMBDA e : Len(e) > 0)

\* A test for any non-empty value of IS_TEST_EMAIL.
IsTestEmail_truthy(env) == env.IS_TEST_EMAIL # <<>>

IsTestEmail(env) == env.IS_TEST_EMAIL = True

\* The validation of the script without the approval button.
MissingVars_noApproval(env) ==
  {v \in {"GMAIL_FROM_EMAIL", "GMAIL_APP_PASSWORD", "EMAIL_RECIPIENTS"} : env[v] = <<>>}

\* The names pushed to missingVars before sendEmail is called.
MissingVars(env) ==
  {v \in {"GMAIL_FROM_EMAIL", "GMAIL_APP_PASSWORD", "EMAIL_RECIPIENTS"} : env[v] = <<>>}
  \cup (IF IsTestEmail(env)
        THEN {v \in {"APPROVAL_TOKEN_SECRET", "VERCEL_DEPLOYMENT_URL", "GITHUB_RUN_ID"} :
                env[v] = <<>>}
        ELSE {})

Exit(code, why) == [exit |-> code, why |-> why, sent |-> <<>>]

\* A script whose catch block swallows the transport's error.
sendEmail_swallow(env, file, accepts) ==
  IF MissingVars(env) # {} THEN Exit(1, "missing variables")
  ELSE IF ~file.exists THEN Exit(1, "report file not found")
  ELSE
    LET htmlContent == IF IsTestEmail(env) THEN injectApprovalButton(file.html, env)
                       ELSE file.html
        recipients == ParseRecipients(env.EMAIL_RECIPIENTS)
    IN  IF Len(recipients) = 0 THEN Exit(1, "no recipients")
        ELSE [exit |-> 0, why |-> "sent",
              sent |-> <<[from |-> env.GMAIL_FROM_EMAIL, to |-> recipients,
                          subject |-> [test |-> IsTestEmail(env)],
                          html |-> htmlContent]>>]

\* One run of the script: the exit code, why, and the messages handed to
\* transporter.sendMail (none or one).  `accepts` is the transport's answer.
sendEmail(env, file, accepts) ==
  IF MissingVars(env) # {} THEN Exit(1, "missing variables")
  ELSE IF ~file.exists THEN Exit(1, "report file not found")
  ELSE
    LET htmlContent == IF IsTestEmail(env) THEN injectApprovalButton(file.html, env)
                       ELSE file.html
        recipients == ParseRecipients(env.EMAIL_RECIPIENTS)
        subject == [test |-> IsTestEmail(env)]
        mailOptions == [from |-> env.GMAIL_FROM_EMAIL, to |-> recipients,
                        subject |-> subject, html |-> htmlContent]
    IN  IF Len(recipients) = 0 THEN Exit(1, "no recipients")
        ELSE [exit |-> IF accepts THEN 0 ELSE 1,
              why |-> IF accepts THEN "sent" ELSE "transport error",
              sent |-> <<mailOptions>>]

\* The script as it was before the approval button: one run, with the same
\* shape of result as sendEmail.
sendEmailOriginal(env, file, accepts) ==
  LET missingVars ==
        {v \in {"GMAIL_FROM_EMAIL", "GMAIL_APP_PASSWORD", "EMAIL_RECIPIENTS"} :
           env[v] = <<>>}
  IN  IF missingVars # {} THEN Exit(1, "missing variables")
      ELSE IF ~file.exists THEN Exit(1, "report file not found")
      ELSE
        LET htmlContent == file.html
            recipients == ParseRecipients(env.EMAIL_RECIPIENTS)
            subject == [test |-> FALSE]
            mailOptions == [from |-> env.GMAIL_FROM_EMAIL, to |-> recipients,
                            subject |-> subject, html |-> htmlContent]
        IN  IF Len(recipients) = 0 THEN Exit(1, "no recipients")
            ELSE [exit |-> IF accepts THEN 0 ELSE 1,
                  why |-> IF accepts THEN "sent" ELSE "transport error",
                  sent |-> <<mailOptions>>]

(***************************************************************************)
(* The pipeline around the scripts.                                        *)
(***************************************************************************)
Runs == 1..MaxRuns
Requests == 1..MaxRequests

\* GITHUB_RUN_ID of the send workflow that the merge of draft i starts.
RunIdOf(i) == <<Digits[i + 1]>>

\* "This link expires in 24 hours."
LinkValidityHours == 24

\* The configuration (repository secrets).
Sender == <<"m">>
AppPassword == <<"p">>
Secret == <<"k">>
DeploymentUrl == <<"h", ":", "/", "/", "v">>

\* The deployments: the shape of the report template (no body tag, a body
\* tag, a body tag that is never closed), the recipient list and the
\* preview-recipient override.
Deployments ==
  { [TEMPLATE |-> "plain", EMAIL_RECIPIENTS |-> <<"a", ",", " ", "b">>,
     PREVIEW_RECIPIENT |-> <<>>],
    [TEMPLATE |-> "body", EMAIL_RECIPIENTS |-> <<"a", ",", "b">>,
     PREVIEW_RECIPIENT |-> <<"q">>],
    [TEMPLATE |-> "open body", EMAIL_RECIPIENTS |-> <<"a">>,
     PREVIEW_RECIPIENT |-> <<>>] }

\* A key the deployment does not hold.
ForeignKey == <<"x">>

\* The report of run i: the template around the content of that run.
Report(template, i) ==
  LET content == Frag("t" \o Digits[i + 1])
  IN  CASE template = "plain" -> <<content>>
        [] template = "body" -> <<Frag("<body"), Frag(">"), content>>
        [] template = "open body" -> <<Frag("<body"), content>>
        [] template = "upper body" -> <<Frag("<BODY"), Frag(">"), content>>

IdleRequest ==
  [pc |-> "idle", status |-> 0, hadToken |-> FALSE, hadRunId |-> FALSE,
   genuine |-> FALSE, run |-> 0, link |-> 0, late |-> FALSE,
   sigWork |-> FALSE, calls |-> 0, callOk |-> FALSE, page |-> ""]

(***************************************************************************)
(* The Release Controller: the review workflow and the two send jobs.      *)
(***************************************************************************)
\* The single address a preview goes to: the override, else the sender.
PreviewRecipient(cfg) ==
  IF cfg.PREVIEW_RECIPIENT # <<>> THEN cfg.PREVIEW_RECIPIENT ELSE Sender

\* A test step that is handed the whole recipient list.
PreviewEnv_fullList(i, cfg) ==
  [GMAIL_FROM_EMAIL |-> Sender, GMAIL_APP_PASSWORD |-> AppPassword,
   EMAIL_RECIPIENTS |-> cfg.EMAIL_RECIPIENTS, IS_TEST_EMAIL |-> True,
   APPROVAL_TOKEN_SECRET |-> Secret, VERCEL_DEPLOYMENT_URL |-> DeploymentUrl,
   GITHUB_RUN_ID |-> RunIdOf(i)]

\* The environment of the "send test email" step of run i.
PreviewEnv(i, cfg) ==
  [GMAIL_FROM_EMAIL |-> Sender, GMAIL_APP_PASSWORD |-> AppPassword,
   EMAIL_RECIPIENTS |-> PreviewRecipient(cfg), IS_TEST_EMAIL |-> True,
   APPROVAL_TOKEN_SECRET |-> Secret, VERCEL_DEPLOYMENT_URL |-> DeploymentUrl,
   GITHUB_RUN_ID |-> RunIdOf(i)]

\* The environment of the "send email to all recipients" step.
BroadcastEnv(cfg) ==
  [GMAIL_FROM_EMAIL |-> Sender, GMAIL_APP_PASSWORD |-> AppPassword,
   EMAIL_RECIPIENTS |-> cfg.EMAIL_RECIPIENTS, IS_TEST_EMAIL |-> <<>>,
   APPROVAL_TOKEN_SECRET |-> <<>>, VERCEL_DEPLOYMENT_URL |-> <<>>,
   GITHUB_RUN_ID |-> <<>>]

\* What a job's run of the script leaves in the outbox: the message, the
\* job, the transport's answer, the file the script read and, for a
\* preview, the hour it was issued.
Posted(out, kind, id, file, accepts) ==
  {[mail |-> out.sent[j], kind |-> kind, id |-> id, accepted |-> accepts,
    at |-> IF kind = "preview" THEN now ELSE 0, file |-> file] : j \in 1..Len(out.sent)}

\* The scheduled job opens the draft of the next pipeline run for review;
\* it reuses its branch, so one draft is open at a time, and it runs days
\* after the send job of the run before it.
OpenDraft(i) ==
  /\ pr[i] = "none"
  /\ IF i = 1 THEN TRUE
     ELSE pr[i - 1] \in {"merged", "closed"} /\ previewJob[i - 1] # "queued"
  /\ pr' = [pr EXCEPT ![i] = "open"]
  /\ UNCHANGED <<now, master, previewJob, reqs, bjob, outbox, config, fn, proc>>

\* The human-review acceptance event: the draft is merged, the report
\* lands on the main branch and the send workflow starts.
HumanApprove(i) ==
  /\ pr[i] = "open"
  /\ pr' = [pr EXCEPT ![i] = "merged"]
  /\ master' = File(Report(config.TEMPLATE, i))
  /\ previewJob' = [previewJob EXCEPT ![i] = "queued"]
  /\ UNCHANGED <<now, reqs, bjob, outbox, config, fn, proc>>

\* The draft is closed without a merge.
Reject(i) ==
  /\ pr[i] = "open"
  /\ pr' = [pr EXCEPT ![i] = "closed"]
  /\ UNCHANGED <<now, master, previewJob, reqs, bjob, outbox, config, fn, proc>>

\* The send workflow of run i runs the script in test mode.
PreviewSend(i, accepts) ==
  /\ previewJob[i] = "queued"
  /\ LET out == sendEmail(PreviewEnv(i, config), master, accepts)
     IN  /\ outbox' = outbox \cup Posted(out, "preview", i, master, accepts)
         /\ previewJob' = [previewJob EXCEPT ![i] = IF out.exit = 0 THEN "ok" ELSE "failed"]
  /\ UNCHANGED <<now, pr, master, reqs, bjob, config, fn, proc>>

\* The dispatched workflow of request k runs the script against the list.
BroadcastSend(k, accepts) ==
  /\ bjob[k] = "queued"
  /\ LET out == sendEmail(BroadcastEnv(config), master, accepts)
     IN  /\ outbox' = outbox \cup Posted(out, "broadcast", k, master, accepts)
         /\ bjob' = [bjob EXCEPT ![k] = IF out.exit = 0 THEN "ok" ELSE "failed"]
  /\ UNCHANGED <<now, pr, master, previewJob, reqs, config, fn, proc>>

\* More than the validity of a link passes.
Tick ==
  /\ now + LinkValidityHours + 1 <= MaxClock
  /\ now' = now + LinkValidityHours + 1
  /\ UNCHANGED <<pr, master, previewJob, reqs, bjob, outbox, config, fn, proc>>

(***************************************************************************)
(* The Dispatch Trigger: api/approve.                                      *)
(***************************************************************************)
\* The previews that reached their reader.
Delivered == {m \in outbox : m.accepted /\ HasBanner(m.mail.html)}

\* The URL of the link of message m.
LinkOf(m) ==
  LET html == m.mail.html
  IN  html[CHOOSE i \in 1..Len(html) : IsBanner(html[i])].href

\* s with its last character replaced by another hex character.
Flip(s) == [s EXCEPT ![Len(s)] = IF @ = "0" THEN "F" ELSE "0"]

\* The requests a client can make: the link of a preview as it is, with one
\* character of its token changed, with the id of another run, or without
\* its run id; a request without a token; a token signed with a key of the
\* client's own.  `link` is the run whose preview the link was taken from.
Presentable ==
  UNION {LET click == RequestOf(LinkOf(m))
         IN  {[req |-> click, link |-> m.id, at |-> m.at]}
             \cup {[req |-> [click EXCEPT !.token.val = Flip(@)], link |-> 0, at |-> now] :
                     x \in {1} \cap (1..Len(click.token.val))}
             \cup {[req |-> [click EXCEPT !.runId = Given(RunIdOf(j))], link |-> 0, at |-> now] :
                     j \in {r \in Runs : Given(RunIdOf(r)) # click.runId}}
             \cup {[req |-> [click EXCEPT !.runId = Absent], link |-> 0, at |-> now]} :
         m \in Delivered}
  \cup {[req |-> [token |-> Absent, runId |-> Given(RunIdOf(1))], link |-> 0, at |-> now]}
  \cup {[req |-> [token |-> Given(HmacSha256Hex(ForeignKey, RunIdOf(j))),
                  runId |-> Given(RunIdOf(j))], link |-> 0, at |-> now] : j \in Runs}

\* Step (1): a parameter is absent.
ParamsMissing(req) == ~(req.token.present /\ req.runId.present)

\* Steps (2) and (3): the signature is recomputed and compared.
TokenVerifies(req) ==
  /\ ~req.token.multi
  /\ ~req.runId.multi
  /\ verify(req.runId.val, req.token.val, Secret)

\* The handler's verdict on a request: 400, 401, or 0 (go on to step 4).
Verdict(req) ==
  IF ParamsMissing(req) THEN 400
  ELSE IF ~TokenVerifies(req) THEN 401
  ELSE 0

\* Whether the verdict took the recomputation of the signature.
SignatureWork(req) == ~ParamsMissing(req)

\* A handler that triggers once per run.
CallsDownstream_oncePerRun(k, rs) ==
  \A j \in DOMAIN rs : j # k => ~(rs[j].run = rs[k].run /\ rs[j].calls > 0)

\* Step (4): every verified request calls the downstream trigger; the
\* handler keeps nothing from one request to the next.
CallsDownstream(k, rs) == TRUE

\* A handler that reports the failure of the trigger call.
ConfirmationStatus_reportsFailure(callOk) == IF callOk THEN 200 ELSE 502

\* The status sent once the token has verified.
ConfirmationStatus(callOk) == 200

\* The run a request names, 0 when it names none.
RunNamed(req) ==
  IF \E j \in Runs : req.runId = Given(RunIdOf(j))
  THEN CHOOSE j \in Runs : req.runId = Given(RunIdOf(j))
  ELSE 0

\* A rejection page that tells whether the run is known.
RejectionPage_namesRun(req, v) ==
  IF v = 400 THEN "missing parameters"
  ELSE IF RunNamed(req) \in Runs /\ pr[RunNamed(req)] # "none"
       THEN "invalid token for this run"
       ELSE "unknown run"

\* The page sent with a rejection: a fixed text for each status.
RejectionPage(req, v) ==
  IF v = 400 THEN "missing parameters" ELSE "invalid token"

\* A client's request arrives and the handler runs steps (1) to (3).  The
\* fields hadToken, hadRunId, genuine, run, link and late record what the
\* request was; the handler reads none of them.
Receive(k) ==
  /\ reqs[k].pc = "idle"
  /\ IF k = 1 THEN TRUE ELSE reqs[k - 1].pc # "idle"
  /\ \E p \in Presentable :
       LET v == Verdict(p.req)
       IN  reqs' = [reqs EXCEPT ![k] =
                      [pc |-> IF v = 0 THEN "verified" ELSE "done",
                       status |-> v,
                       hadToken |-> p.req.token.present,
                       hadRunId |-> p.req.runId.present,
                       genuine |-> /\ p.req.token.present /\ p.req.runId.present
                                   /\ ~p.req.token.multi /\ ~p.req.runId.multi
                                   /\ p.req.token.val = HmacSha256Hex(Secret, p.req.runId.val),
                       run |-> RunNamed(p.req),
                       link |-> p.link,
                       late |-> now - p.at > LinkValidityHours,
                       sigWork |-> SignatureWork(p.req),
                       calls |-> 0,
                       callOk |-> FALSE,
                       page |-> IF v = 0 THEN "" ELSE RejectionPage(p.req, v)]]
  /\ UNCHANGED <<now, pr, master, previewJob, bjob, outbox, config, fn, proc>>

\* Step (4): the call, which the downstream API accepts (and starts the
\* broadcast workflow) or fails, and then the confirmation page.
CallDownstream(k, ok) ==
  /\ reqs[k].pc = "verified"
  /\ IF CallsDownstream(k, reqs)
     THEN /\ reqs' = [reqs EXCEPT ![k].pc = "done", ![k].calls = @ + 1, ![k].callOk = ok,
                                  ![k].status = ConfirmationStatus(ok),
                                  ![k].page = "confirmation"]
          /\ bjob' = [bjob EXCEPT ![k] = IF ok THEN "queued" ELSE "none"]
     ELSE /\ reqs' = [reqs EXCEPT ![k].pc = "done", ![k].status = ConfirmationStatus(TRUE),
                                  ![k].page = "confirmation"]
          /\ UNCHANGED bjob
  /\ UNCHANGED <<now, pr, master, previewJob, outbox, config, fn, proc>>

(***************************************************************************)
(* The pipeline.                                                           *)
(***************************************************************************)
\* The Token Service is not in use.
NoCall ==
  [op |-> "none", runId |-> <<>>, secret |-> <<>>, url |-> <<>>, token |-> <<>>,
   link |-> <<>>, req |-> [token |-> Absent, runId |-> Absent]]

InitPipeline ==
  /\ now = 0
  /\ pr = [i \in Runs |-> "none"]
  /\ config \in Deployments
  /\ master = File(Report(config.TEMPLATE, 0))
  /\ previewJob = [i \in Runs |-> "none"]
  /\ reqs = [k \in Requests |-> IdleRequest]
  /\ bjob = [k \in Requests |-> "none"]
  /\ outbox = {}

\* No script is run outside the pipeline's jobs.
NoProc == [script |-> "none"]

Init ==
  /\ InitPipeline
  /\ fn = NoCall
  /\ proc = NoProc

Next ==
  \/ \E i \in Runs : OpenDraft(i)
  \/ \E i \in Runs : HumanApprove(i)
  \/ \E i \in Runs : Reject(i)
  \/ \E i \in Runs, accepts \in BOOLEAN : PreviewSend(i, accepts)
  \/ \E k \in Requests : Receive(k)
  \/ \E k \in Requests, ok \in BOOLEAN : CallDownstream(k, ok)
  \/ \E k \in Requests, accepts \in BOOLEAN : BroadcastSend(k, accepts)

\* No component reads the clock: the pipeline with the clock standing
\* still, and the pipeline with time passing.
Spec == Init /\ [][Next]_vars

NextClock ==
  \/ Next
  \/ Tick

SpecClock == Init /\ [][NextClock]_vars

(***************************************************************************)
(* The Token Service and the action URL on inputs of the caller's choice:  *)
(* sign, build the link, follow it.                                        *)
(***************************************************************************)
RunIdChars == {"1", "2", "&", "+", "%", "#"}

RECURSIVE StringsUpTo(_, _)
\* The strings over `chars` of length at most n.
StringsUpTo(chars, n) ==
  IF n = 0 THEN {<<>>}
  ELSE LET shorter == StringsUpTo(chars, n - 1)
       IN  shorter \cup {Append(s, c) : s \in shorter, c \in chars}

RunIdStrings == StringsUpTo(RunIdChars, MaxIdLen)
Secrets == {Secret, ForeignKey}
DeploymentUrls == {DeploymentUrl, DeploymentUrl \o <<"/">>}

InitFn ==
  /\ InitPipeline
  /\ config.TEMPLATE = "body"
  /\ proc = NoProc
  /\ \E r \in RunIdStrings, k \in Secrets, u \in DeploymentUrls :
       fn = [NoCall EXCEPT !.op = "input", !.runId = r, !.secret = k, !.url = u]

Sign ==
  /\ fn.op = "input"
  /\ fn' = [fn EXCEPT !.op = "signed", !.token = generateApprovalToken(fn.runId, fn.secret)]
  /\ UNCHANGED <<now, pr, master, previewJob, reqs, bjob, outbox, config, proc>>

Build ==
  /\ fn.op = "signed"
  /\ fn' = [fn EXCEPT !.op = "built", !.link = buildApprovalUrl(fn.runId, fn.token, fn.url)]
  /\ UNCHANGED <<now, pr, master, previewJob, reqs, bjob, outbox, config, proc>>

Follow ==
  /\ fn.op = "built"
  /\ fn' = [fn EXCEPT !.op = "followed", !.req = RequestOf(fn.link)]
  /\ UNCHANGED <<now, pr, master, previewJob, reqs, bjob, outbox, config, proc>>

\* Time passes between the calls.
NextFn ==
  \/ Sign
  \/ Build
  \/ Follow
  \/ Tick

SpecFn == InitFn /\ [][NextFn]_vars

(***************************************************************************)
(* The scripts run on their own, on an environment, a report file, a       *)
(* source and a transport of the caller's choice, one statement group at   *)
(* a time.                                                                 *)
(***************************************************************************)
\* console.error(text, detail)
Logged(text, detail) == [text |-> text, detail |-> detail]

\* process.exit(code) after console.error(text, detail).
Exited(p, code, text, detail) ==
  [p EXCEPT !.pc = "exited", !.exit = code, !.log = Append(@, Logged(text, detail))]

\* -------------------------- scripts/send-email.mjs ----------------------
\* Values of EMAIL_RECIPIENTS: unset, one address, two, padded with blanks
\* and an empty entry, a word that is no address, alone and after an
\* address, and separators only.
RecipientValues ==
  { <<>>,
    <<"a", "@", "b">>,
    <<"a", "@", "b", ",", "c", "@", "d">>,
    <<" ", "a", "@", "b", " ", ",", " ">>,
    <<"c">>,
    <<"a", "@", "b", ",", "c">>,
    <<",", " ">> }

SendEnvs ==
  [GMAIL_FROM_EMAIL : {Sender, <<>>},
   GMAIL_APP_PASSWORD : {AppPassword, <<>>},
   EMAIL_RECIPIENTS : RecipientValues,
   IS_TEST_EMAIL : {True, <<>>, <<"1">>},
   APPROVAL_TOKEN_SECRET : {Secret, <<>>},
   VERCEL_DEPLOYMENT_URL : {DeploymentUrl, <<>>},
   GITHUB_RUN_ID : {RunIdOf(1), <<>>}]

\* What transporter.sendMail does: resolve, or reject with a message.
TransportAnswers ==
  { [ok |-> TRUE, message |-> "250 OK"],
    [ok |-> FALSE, message |-> "535 bad credentials"],
    [ok |-> FALSE, message |-> "550 no such mailbox"] }

NoAnswer == [ok |-> FALSE, message |-> ""]

NoMail == [from |-> <<>>, to |-> <<>>, subject |-> [test |-> FALSE], html |-> <<>>]

SendProc(env, file) ==
  [script |-> "send", pc |-> "start", env |-> env, file |-> file,
   reads |-> 0, html |-> <<>>, mailOptions |-> NoMail, calls |-> 0,
   answer |-> NoAnswer, exit |-> -1, log |-> <<>>]

\* The environment validation at the top of the script.
SendValidate ==
  /\ proc.script = "send"
  /\ proc.pc = "start"
  /\ proc' = IF MissingVars(proc.env) # {}
             THEN Exited(proc, 1, "Error: Missing required environment variables:",
                         "the names of the missing variables")
             ELSE [proc EXCEPT !.pc = "read"]
  /\ UNCHANGED <<now, pr, master, previewJob, reqs, bjob, outbox, config, fn>>

\* sendEmail: the report is read.
SendRead ==
  /\ proc.script = "send"
  /\ proc.pc = "read"
  /\ proc' = IF ~proc.file.exists
             THEN Exited(proc, 1, "Error sending email:", "Report file not found")
             ELSE [proc EXCEPT !.pc = "compose", !.reads = @ + 1, !.html = proc.file.html]
  /\ UNCHANGED <<now, pr, master, previewJob, reqs, bjob, outbox, config, fn>>

\* sendEmail: the button is injected in test mode, the recipients are
\* parsed, the message is composed.
SendCompose ==
  /\ proc.script = "send"
  /\ proc.pc = "compose"
  /\ LET htmlContent == IF IsTestEmail(proc.env)
                        THEN injectApprovalButton(proc.html, proc.env)
                        ELSE proc.html
         recipients == ParseRecipients(proc.env.EMAIL_RECIPIENTS)
     IN  proc' = IF Len(recipients) = 0
                 THEN Exited(proc, 1, "Error sending email:",
                             "No valid email recipients provided")
                 ELSE [proc EXCEPT !.pc = "sending", !.html = htmlContent,
                         !.mailOptions = [from |-> proc.env.GMAIL_FROM_EMAIL,
                                          to |-> recipients,
                                          subject |-> [test |-> IsTestEmail(proc.env)],
                                          html |-> htmlContent]]
  /\ UNCHANGED <<now, pr, master, previewJob, reqs, bjob, outbox, config, fn>>

\* A catch block that sends once more before it gives up.
OnTransportError_retry(p, error) ==
  IF p.calls < 2 THEN [p EXCEPT !.pc = "sending"]
  ELSE Exited(p, 1, "Error sending email:", error.message)

\* The catch block of sendEmail.
OnTransportError(p, error) == Exited(p, 1, "Error sending email:", error.message)

\* sendEmail: await transporter.sendMail(mailOptions).
SendTransport(answer) ==
  /\ proc.script = "send"
  /\ proc.pc = "sending"
  /\ LET called == [proc EXCEPT !.calls = @ + 1, !.answer = answer]
     IN  proc' = IF answer.ok
                 THEN [called EXCEPT !.pc = "exited", !.exit = 0]
                 ELSE OnTransportError(called, answer)
  /\ UNCHANGED <<now, pr, master, previewJob, reqs, bjob, outbox, config, fn>>

\* ----------------------- scripts/fetch-notion-data.mjs -------------------
\* A value of the source's JSON that may be missing.  The values of the
\* items' fields are atoms: the script does not look inside them.
Undefined == [defined |-> FALSE, v |-> ""]
Val(v) == [defined |-> TRUE, v |-> v]

\* x || d
OrDefault(x, d) == IF x.defined /\ x.v # "" THEN x.v ELSE d

\* body: JSON.stringify({ page_size: 100 })
PageSize == 100

\* The shapes of an item of the source: every property filled in, none
\* filled in, a priority outside the four tiers, an empty title, and a page
\* object without properties (returned for pages the integration may not
\* read).
ItemShapes == {"full", "bare", "other priority", "empty title", "partial"}

RawItem(id, shape) ==
  [id |-> id,
   properties |-> shape # "partial",
   Name |-> CASE shape \in {"full", "other priority"} -> Val("Fix login")
              [] shape = "empty title" -> Val("")
              [] OTHER -> Undefined,
   Status |-> IF shape \in {"full", "other priority", "empty title"}
              THEN Val("Open") ELSE Undefined,
   Priority |-> CASE shape \in {"full", "empty title"} -> Val("HIGH")
                  [] shape = "other priority" -> Val("Critical")
                  [] OTHER -> Undefined,
   Updates |-> IF shape = "full" THEN Val("notes") ELSE Undefined,
   Client |-> IF shape \in {"full", "other priority", "empty title"}
              THEN Val("Acme") ELSE Undefined,
   url |-> id]

RECURSIVE ShapeSeqs(_)
\* The sequences of at most n shapes.
ShapeSeqs(n) ==
  IF n = 0 THEN {<<>>}
  ELSE LET shorter == ShapeSeqs(n - 1)
       IN  shorter \cup {Append(q, h) : q \in shorter, h \in ItemShapes}

\* The collections of the source: the short collections of every shape,
\* and the collections of well-formed items that fill a page and exceed it
\* by up to MaxOverflow items.
Collections ==
  {[i \in 1..Len(q) |-> RawItem(i, q[i])] : q \in ShapeSeqs(MaxItems)}
  \cup {[i \in 1..(PageSize + n) |-> RawItem(i, "full")] : n \in 0..MaxOverflow}

FetchEnvs ==
  [NOTION_API_TOKEN : {<<"s">>, <<>>}, NOTION_DATABASE_ID : {<<"d">>, <<>>}]

\* A test that lets client errors through.
Ok_below500(status) == status < 500

\* Response.ok
Ok(status) == status >= 200 /\ status <= 299

\* Responses of GET /v1/databases/{id}: the database with or without a
\* title, and errors.
MetaResponses ==
  { [status |-> 200, body |-> "database", title |-> Val("Roadmap")],
    [status |-> 200, body |-> "database", title |-> Undefined],
    [status |-> 404, body |-> "object_not_found", title |-> Undefined],
    [status |-> 401, body |-> "unauthorized", title |-> Undefined] }

\* Responses of POST /v1/databases/{id}/query with the given page_size and
\* no start_cursor: the first page of the collection, and errors.
QueryResponses(collection, pageSize) ==
  LET n == IF Len(collection) < pageSize THEN Len(collection) ELSE pageSize
  IN  { [status |-> 200, body |-> "list", hasResults |-> TRUE,
         results |-> SubSeq(collection, 1, n), has_more |-> Len(collection) > n],
        [status |-> 429, body |-> "rate_limited", hasResults |-> FALSE,
         results |-> <<>>, has_more |-> FALSE],
        [status |-> 500, body |-> "internal_server_error", hasResults |-> FALSE,
         results |-> <<>>, has_more |-> FALSE] }

\* The object the items map returns for one item.
Extract(item) ==
  [id |-> item.id,
   name |-> OrDefault(item.Name, "Untitled"),
   status |-> OrDefault(item.Status, "No status"),
   priority |-> OrDefault(item.Priority, "No priority"),
   updates |-> OrDefault(item.Updates, ""),
   client |-> OrDefault(item.Client, "Unknown"),
   url |-> item.url]

\* Reading props.Name of an item whose properties are undefined throws.
Throws(results) == \E i \in 1..Len(results) : ~results[i].properties

NoOutput == [written |-> FALSE, title |-> "", items |-> <<>>, itemCount |-> 0]

FetchProc(env, collection) ==
  [script |-> "fetch", pc |-> "start", env |-> env, collection |-> collection,
   requests |-> 0, responses |-> <<>>, dbTitle |-> "", items |-> <<>>,
   output |-> NoOutput, exit |-> -1, log |-> <<>>]

\* The environment validation at the top of the script.
FetchValidate ==
  /\ proc.script = "fetch"
  /\ proc.pc = "start"
  /\ proc' = IF proc.env.NOTION_API_TOKEN = <<>>
             THEN Exited(proc, 1, "Error: Missing required environment variable:",
                         "NOTION_API_TOKEN")
             ELSE IF proc.env.NOTION_DATABASE_ID = <<>>
             THEN Exited(proc, 1, "Error: Missing required environment variable:",
                         "NOTION_DATABASE_ID")
             ELSE [proc EXCEPT !.pc = "metadata"]
  /\ UNCHANGED <<now, pr, master, previewJob, reqs, bjob, outbox, config, fn>>

\* fetchNotionData: the metadata request and the test of its response.
FetchMetadata(res) ==
  /\ proc.script = "fetch"
  /\ proc.pc = "metadata"
  /\ LET asked == [proc EXCEPT !.requests = @ + 1, !.responses = Append(@, res)]
     IN  proc' = IF ~Ok(res.status)
                 THEN Exited(asked, 1, "Response:", res.body)
                 ELSE [asked EXCEPT !.pc = "query",
                                    !.dbTitle = OrDefault(res.title, "Unknown Database")]
  /\ UNCHANGED <<now, pr, master, previewJob, reqs, bjob, outbox, config, fn>>

\* fetchNotionData: the query request, the test of its response and the
\* items map; an exception ends in the catch block.
FetchQuery ==
  /\ proc.script = "fetch"
  /\ proc.pc = "query"
  /\ \E res \in QueryResponses(proc.collection, PageSize) :
     LET asked == [proc EXCEPT !.requests = @ + 1, !.responses = Append(@, res)]
     IN  proc' = IF ~Ok(res.status)
                 THEN Exited(asked, 1, "Response:", res.body)
                 ELSE IF ~res.hasResults
                 THEN Exited(asked, 1, "Error fetching Notion data:", "TypeError")
                 ELSE IF Throws(res.results)
                 THEN Exited(asked, 1, "Error fetching Notion data:", "TypeError")
                 ELSE [asked EXCEPT !.pc = "write",
                         !.items = [i \in 1..Len(res.results) |-> Extract(res.results[i])]]
  /\ UNCHANGED <<now, pr, master, previewJob, reqs, bjob, outbox, config, fn>>

\* fetchNotionData: data/notion-raw.json is written.
FetchWrite ==
  /\ proc.script = "fetch"
  /\ proc.pc = "write"
  /\ proc' = [proc EXCEPT !.pc = "exited", !.exit = 0,
                !.output = [written |-> TRUE, title |-> proc.dbTitle,
                            items |-> proc.items, itemCount |-> Len(proc.items)]]
  /\ UNCHANGED <<now, pr, master, previewJob, reqs, bjob, outbox, config, fn>>

\* ------------------------- scripts/generate-report.mjs -------------------
\* A document is a sequence of pieces: static pieces, the four markers and
\* the pieces inside the two regions.
DateOpen == "<!--date-->"
DateClose == "<!--/date-->"
ContentOpen == "<!--content-->"
ContentClose == "<!--/content-->"
Markers == {DateOpen, DateClose, ContentOpen, ContentClose}

Positions(t, piece) == {i \in 1..Len(t) : t[i] = piece}
PositionOf(t, piece) == CHOOSE i \in 1..Len(t) : t[i] = piece

\* Each marker occurs once, and each region is opened before it is closed.
HasMarkers(t) ==
  /\ \A k \in Markers : Cardinality(Positions(t, k)) = 1
  /\ PositionOf(t, DateOpen) < PositionOf(t, DateClose)
  /\ PositionOf(t, ContentOpen) < PositionOf(t, ContentClose)

\* t with what stands between the two markers replaced by `inner`.
ReplaceRegion(t, open, close, inner) ==
  SubSeq(t, 1, PositionOf(t, open)) \o inner \o SubSeq(t, PositionOf(t, close), Len(t))

\* A renderer that writes the content and closes the document there.
render_dropsTail(template, draft, date) ==
  LET dated == ReplaceRegion(template, DateOpen, DateClose, <<date>>)
  IN  SubSeq(dated, 1, PositionOf(dated, ContentOpen)) \o draft \o <<ContentClose>>

\* render(template, draft, date) for a template that has the markers.
render(template, draft, date) ==
  ReplaceRegion(ReplaceRegion(template, DateOpen, DateClose, <<date>>),
                ContentOpen, ContentClose, draft)

\* The templates: static pieces (or none) before, between and after the
\* two regions, in either order, each region empty or holding the content
\* of the last report; and templates that lack a marker.
StaticParts == {<<>>, <<"<style>">>}
RegionParts == {<<>>, <<"old">>}
Templates ==
  UNION {{ a \o <<DateOpen>> \o d \o <<DateClose>> \o b
             \o <<ContentOpen>> \o c \o <<ContentClose>> \o e,
           a \o <<ContentOpen>> \o c \o <<ContentClose>> \o b
             \o <<DateOpen>> \o d \o <<DateClose>> \o e } :
         a \in StaticParts, b \in StaticParts, e \in StaticParts,
         d \in RegionParts, c \in RegionParts}
  \cup { <<"<style>">>,
         <<DateOpen, DateClose, "<style>">>,
         <<ContentOpen, ContentClose>>,
         <<DateOpen, DateClose, ContentOpen, "<style>">> }

RECURSIVE DraftsUpTo(_)
\* The rendered drafts of at most n records.
DraftsUpTo(n) ==
  IF n = 0 THEN {<<>>}
  ELSE LET shorter == DraftsUpTo(n - 1)
       IN  shorter \cup {Append(q, "record") : q \in shorter}

Dates == {"Nov 6", "Nov 9"}

RenderProc(template, draft, date) ==
  [script |-> "render", pc |-> "start", template |-> template, draft |-> draft,
   date |-> date, output |-> <<>>, exit |-> -1, log |-> <<>>]

\* The report is rendered, or the template is refused.
Render ==
  /\ proc.script = "render"
  /\ proc.pc = "start"
  /\ proc' = IF ~HasMarkers(proc.template)
             THEN Exited(proc, 1, "TemplateError", "markers missing")
             ELSE [proc EXCEPT !.pc = "exited", !.exit = 0,
                     !.output = render(proc.template, proc.draft, proc.date)]
  /\ UNCHANGED <<now, pr, master, previewJob, reqs, bjob, outbox, config, fn>>

\* --------------------------- scripts/validate-setup.sh -------------------
\* The outcomes of the checks of one run, in the order the check groups
\* make them: the two required files pass or fail, every later check
\* passes, fails, warns or is skipped.
RequiredOutcomes == {"pass", "fail"}
Outcomes == {"pass", "fail", "warn", "skip"}

RECURSIVE OutcomesUpTo(_)
OutcomesUpTo(n) ==
  IF n = 0 THEN {<<>>}
  ELSE LET shorter == OutcomesUpTo(n - 1)
       IN  shorter \cup {Append(q, o) : q \in shorter, o \in Outcomes}

CheckRuns ==
  {<<a, b>> \o q : a \in RequiredOutcomes, b \in RequiredOutcomes, q \in OutcomesUpTo(MaxChecks)}

\* The exit status of ((X++)): 1 when the value of the expression, the
\* old X, is 0.
IncrStatus(x) == IF x = 0 THEN 1 ELSE 0

\* `arithExits`: the bash that runs the script applies set -e to (( ))
\* commands (bash 4.1 and later do, bash 3.2 does not).
ValidateProc(checks, arithExits) ==
  [script |-> "validate", pc |-> "checks", checks |-> checks,
   arithExits |-> arithExits, done |-> 0,
   PASSED |-> 0, FAILED |-> 0, WARNINGS |-> 0, summary |-> FALSE,
   exit |-> -1, log |-> <<>>]

\* check_pass, check_fail, check_warn or check_skip for the next check,
\* under set -e: a command that returns non-zero ends the script with that
\* status.
ValidateCheck ==
  /\ proc.script = "validate"
  /\ proc.pc = "checks"
  /\ proc.done < Len(proc.checks)
  /\ LET outcome == proc.checks[proc.done + 1]
         counter == CASE outcome = "pass" -> "PASSED"
                      [] outcome = "fail" -> "FAILED"
                      [] outcome = "warn" -> "WARNINGS"
                      [] OTHER -> "none"
     IN  proc' = IF counter = "none"
                 THEN [proc EXCEPT !.done = @ + 1]
                 ELSE IF proc.arithExits /\ IncrStatus(proc[counter]) # 0
                 THEN [proc EXCEPT ![counter] = @ + 1, !.pc = "exited",
                                   !.exit = IncrStatus(proc[counter])]
                 ELSE [proc EXCEPT ![counter] = @ + 1, !.done = @ + 1]
  /\ UNCHANGED <<now, pr, master, previewJob, reqs, bjob, outbox, config, fn>>

\* main after the last check group: print_summary and the exit code.
ValidateSummary ==
  /\ proc.script = "validate"
  /\ proc.pc = "checks"
  /\ proc.done = Len(proc.checks)
  /\ proc' = [proc EXCEPT !.pc = "exited", !.summary = TRUE,
                          !.exit = IF proc.FAILED > 0 THEN 1 ELSE 0]
  /\ UNCHANGED <<now, pr, master, previewJob, reqs, bjob, outbox, config, fn>>

\* ----------------------------- scripts/generate-env.js --------------------
\* The command lines: any of the three options.
ArgLists == SUBSET {"--force", "--auto", "--template"}

\* .env.local before the run: absent, or with the content of an earlier run.
NoEnvFile == [exists |-> FALSE, content |-> ""]
EnvFiles == {NoEnvFile, [exists |-> TRUE, content |-> "kept"]}

\* A generator for which --auto overwrites too.
forceMode_orAuto(args) == "--force" \in args \/ "--auto" \in args

\* const forceMode = args.includes('--force')
forceMode(args) == "--force" \in args

autoMode(args) == "--auto" \in args

\* `variables`: the number of variables the generator prompts for.
GenerateProc(args, envLocal, variables) ==
  [script |-> "generate-env", pc |-> "start", args |-> args, before |-> envLocal,
   envLocal |-> envLocal, variables |-> variables, prompts |-> 0,
   exit |-> -1, log |-> <<>>]

\* main: the check for an existing .env.local, then the base content.
GenerateCheck ==
  /\ proc.script = "generate-env"
  /\ proc.pc = "start"
  /\ proc' = IF proc.envLocal.exists /\ ~forceMode(proc.args)
             THEN Exited(proc, 1, ".env.local already exists!",
                         "Use --force to overwrite, or edit manually.")
             ELSE [proc EXCEPT !.pc = IF autoMode(proc.args) THEN "auto" ELSE "prompt"]
  /\ UNCHANGED <<now, pr, master, previewJob, reqs, bjob, outbox, config, fn>>

\* main in auto mode: the secrets are generated and the file is written.
GenerateAuto ==
  /\ proc.script = "generate-env"
  /\ proc.pc = "auto"
  /\ proc' = [proc EXCEPT !.pc = "exited", !.exit = 0,
                          !.envLocal = [exists |-> TRUE, content |-> "generated"]]
  /\ UNCHANGED <<now, pr, master, previewJob, reqs, bjob, outbox, config, fn>>

\* main in interactive mode: one prompt.
GeneratePrompt ==
  /\ proc.script = "generate-env"
  /\ proc.pc = "prompt"
  /\ proc.prompts < proc.variables
  /\ proc' = [proc EXCEPT !.prompts = @ + 1]
  /\ UNCHANGED <<now, pr, master, previewJob, reqs, bjob, outbox, config, fn>>

\* main in interactive mode: the file is written after the last prompt.
GenerateWrite ==
  /\ proc.script = "generate-env"
  /\ proc.pc = "prompt"
  /\ proc.prompts = proc.variables
  /\ proc' = [proc EXCEPT !.pc = "exited", !.exit = 0,
                          !.envLocal = [exists |-> TRUE, content |-> "answered"]]
  /\ UNCHANGED <<now, pr, master, previewJob, reqs, bjob, outbox, config, fn>>

\* ------------------------------- the scripts ------------------------------
ReportFiles ==
  {NoFile} \cup {File(Report(t, 1)) : t \in {"body", "plain", "open body", "upper body"}}

InitScripts ==
  /\ InitPipeline
  /\ config.TEMPLATE = "body"
  /\ fn = NoCall
  /\ \/ \E env \in SendEnvs, file \in ReportFiles : proc = SendProc(env, file)
     \/ \E env \in FetchEnvs, collection \in Collections : proc = FetchProc(env, collection)
     \/ \E template \in Templates, draft \in DraftsUpTo(MaxItems), date \in Dates :
          proc = RenderProc(template, draft, date)
     \/ \E checks \in CheckRuns, arithExits \in BOOLEAN :
          proc = ValidateProc(checks, arithExits)
     \/ \E args \in ArgLists, envLocal \in EnvFiles, variables \in 0..MaxItems :
          proc = GenerateProc(args, envLocal, variables)

NextScripts ==
  \/ SendValidate
  \/ SendRead
  \/ SendCompose
  \/ \E answer \in TransportAnswers : SendTransport(answer)
  \/ FetchValidate
  \/ \E res \in MetaResponses : FetchMetadata(res)
  \/ FetchQuery
  \/ FetchWrite
  \/ Render
  \/ ValidateCheck
  \/ ValidateSummary
  \/ GenerateCheck
  \/ GenerateAuto
  \/ GeneratePrompt
  \/ GenerateWrite

SpecScripts == InitScripts /\ [][NextScripts]_vars

(***************************************************************************)
(* Properties.                                                             *)
(***************************************************************************)
Broadcasts == {m \in outbox : m.kind = "broadcast" \/ ~m.mail.subject.test}
Previews == {m \in outbox : m.kind = "preview" \/ m.mail.subject.test}

\* The request was made with both parameters and the token is the keyed
\* hash of its run id under the deployment's secret.
Signed(r) == r.hadToken /\ r.hadRunId /\ r.genuine

\* The request went past verification.
Verified(r) == r.pc = "verified" \/ r.calls > 0 \/ r.status = 200

C2_TriggerOnlyIfSigned ==
  \A k \in Requests :
    /\ (reqs[k].calls > 0 \/ bjob[k] # "none") => Signed(reqs[k])
    /\ (reqs[k].pc # "idle" /\ ~Signed(reqs[k])) =>
         reqs[k].pc = "done" /\ reqs[k].calls = 0 /\ bjob[k] = "none"

C2_Witness ==
  \E k, j \in Requests :
    /\ reqs[k].calls > 0
    /\ reqs[j].pc = "done" /\ reqs[j].hadToken /\ reqs[j].hadRunId /\ ~reqs[j].genuine

C4_SignatureIntegrity ==
  fn.op = "signed" =>
    /\ verify(fn.runId, fn.token, fn.secret)
    /\ \A r \in RunIdStrings \ {fn.runId} :
         ~verify(r, fn.token, fn.secret)
    /\ \A i \in 1..Len(fn.token) : \A c \in HexChars \ {fn.token[i]} :
         ~verify(fn.runId, [fn.token EXCEPT ![i] = c], fn.secret)

C4_Witness ==
  fn.op = "signed" /\ Len(fn.runId) = MaxIdLen /\ Len(fn.token) = DigestHexLen

\* C5: a request that presents a link more than 24 hours after its preview
\* was issued is rejected and starts no send.
C5_LinkExpires ==
  \A k \in Requests :
    reqs[k].late => ~Verified(reqs[k]) /\ reqs[k].calls = 0 /\ bjob[k] = "none"

\* C6: a request without token or runId is answered 400, before any
\* signature is computed; one with both and a token that is not the
\* signature is answered 401.
C6_RejectionStatus ==
  \A k \in Requests :
    reqs[k].pc # "idle" =>
      /\ ~(reqs[k].hadToken /\ reqs[k].hadRunId) =>
           reqs[k].pc = "done" /\ reqs[k].status = 400 /\ ~reqs[k].sigWork
      /\ (reqs[k].hadToken /\ reqs[k].hadRunId /\ ~reqs[k].genuine) =>
           reqs[k].pc = "done" /\ reqs[k].status = 401

C6_Witness ==
  \E k, j \in Requests : reqs[k].status = 400 /\ reqs[j].status = 401

\* C7: once the token has verified, the answer is 200 whether the call of
\* the downstream trigger succeeded or failed.
C7_ConfirmationWhateverTheCall ==
  \A k \in Requests :
    (reqs[k].pc = "done" /\ Signed(reqs[k])) => reqs[k].status = 200

C7_Witness ==
  \E k \in Requests :
    reqs[k].pc = "done" /\ reqs[k].calls = 1 /\ ~reqs[k].callOk /\ reqs[k].status = 200

\* C8: following the link built for a run id and its token gives back that
\* run id, character for character, and a token that verifies for it.
C8_UrlRoundTrip ==
  fn.op = "followed" =>
    /\ fn.req.runId = Given(fn.runId)
    /\ fn.req.token = Given(fn.token)
    /\ TokenVerifies(fn.req)

C10_BannerIffPreview ==
  \A m \in outbox :
    /\ m.kind = "preview" =>
         \E i \in 1..Len(m.mail.html) :
           m.mail.html[i] =
             Banner(buildApprovalUrl(RunIdOf(m.id),
                                     generateApprovalToken(RunIdOf(m.id), Secret),
                                     DeploymentUrl))
    /\ m.kind = "broadcast" => m.mail.html = m.file.html /\ ~HasBanner(m.mail.html)

\* Address syntax: one "@" with something on both sides, and no blank.
ValidAddress(a) ==
  /\ Cardinality({i \in 1..Len(a) : a[i] = "@"}) = 1
  /\ a[1] # "@" /\ a[Len(a)] # "@"
  /\ \A i \in 1..Len(a) : a[i] # " "

\* C11: when the send script has called the mail transport, every address
\* of the message it handed over is a syntactically valid address.
C11_OnlyValidAddressesSent ==
  (proc.script = "send" /\ proc.calls > 0) =>
    \A i \in 1..Len(proc.mailOptions.to) : ValidAddress(proc.mailOptions.to[i])

\* C12: a run of the send script calls the mail transport at most once,
\* and when the transport rejected the send the run has ended with exit
\* code 1 and the transport's message in its log, after that one call.
C12_NoRetry ==
  proc.script = "send" =>
    /\ proc.calls <= 1
    /\ (proc.calls > 0 /\ ~proc.answer.ok) =>
         /\ proc.pc = "exited"
         /\ proc.exit = 1
         /\ \E i \in 1..Len(proc.log) : proc.log[i].detail = proc.answer.message

C12_Witness ==
  /\ proc.script = "send"
  /\ proc.pc = "exited"
  /\ proc.calls = 1
  /\ proc.answer = [ok |-> FALSE, message |-> "550 no such mailbox"]
  /\ proc.exit = 1

\* A required value of the stage is missing.
FetchConfigMissing(env) ==
  env.NOTION_API_TOKEN = <<>> \/ env.NOTION_DATABASE_ID = <<>>

SendConfigMissing(env) ==
  \/ env.GMAIL_FROM_EMAIL = <<>>
  \/ env.GMAIL_APP_PASSWORD = <<>>
  \/ env.EMAIL_RECIPIENTS = <<>>
  \/ /\ env.IS_TEST_EMAIL = True
     /\ \/ env.APPROVAL_TOKEN_SECRET = <<>>
        \/ env.VERCEL_DEPLOYMENT_URL = <<>>
        \/ env.GITHUB_RUN_ID = <<>>

\* C13: a stage started with a required value missing does nothing but
\* exit with code 1: the fetch makes no request and writes no file, the
\* send reads no report and calls no transport.
C13_FailFast ==
  /\ (proc.script = "fetch" /\ FetchConfigMissing(proc.env)) =>
       /\ proc.pc \in {"start", "exited"}
       /\ proc.pc = "exited" => proc.exit = 1
       /\ proc.requests = 0
       /\ ~proc.output.written
  /\ (proc.script = "send" /\ SendConfigMissing(proc.env)) =>
       /\ proc.pc \in {"start", "exited"}
       /\ proc.pc = "exited" => proc.exit = 1
       /\ proc.reads = 0
       /\ proc.calls = 0

C13_Witness ==
  /\ proc.script = "send"
  /\ proc.pc = "exited"
  /\ proc.exit = 1
  /\ proc.env.IS_TEST_EMAIL = True
  /\ proc.env.GMAIL_FROM_EMAIL # <<>>
  /\ proc.env.GMAIL_APP_PASSWORD # <<>>
  /\ proc.env.EMAIL_RECIPIENTS # <<>>
  /\ proc.env.APPROVAL_TOKEN_SECRET = <<>>
  /\ proc.file.exists
  /\ proc.reads = 0

\* The responses of the source that were not 2xx.
Failures == {i \in 1..Len(proc.responses) : proc.responses[i].status \notin 200..299}

\* C14: when the metadata request or the query request of a fetch run was
\* answered with a status outside 2xx, the run has ended with exit code 1,
\* the body of that response is in its log, and no file was written.
C14_UpstreamFailureFailsRun ==
  proc.script = "fetch" =>
    \A i \in Failures :
      /\ proc.pc = "exited"
      /\ proc.exit = 1
      /\ \E j \in 1..Len(proc.log) : proc.log[j].detail = proc.responses[i].body
      /\ ~proc.output.written

C14_Witness ==
  /\ proc.script = "fetch"
  /\ proc.pc = "exited"
  /\ proc.requests = 2
  /\ proc.responses[1].status = 200
  /\ proc.responses[2].status = 500
  /\ proc.exit = 1
  /\ ~proc.output.written

\* C15: the file a fetch run has written holds every item of the
\* collection exactly once, whatever the size of the collection.
C15_EveryItemOnce ==
  (proc.script = "fetch" /\ proc.output.written) =>
    \A i \in 1..Len(proc.collection) :
      Cardinality({j \in 1..Len(proc.output.items) :
                     proc.output.items[j].id = proc.collection[i].id}) = 1

\* The page the source returned to the query of the run.
PageReturned == proc.responses[2].results

\* C16: a fetch run whose two requests were answered 200 has written the
\* batch, with a record for every item of the page returned, and in it the
\* placeholder for each of title, status and subject the item lacks.
C16_MalformedItemKept ==
  (/\ proc.script = "fetch"
   /\ proc.pc = "exited"
   /\ Len(proc.responses) = 2
   /\ proc.responses[2].status = 200) =>
    /\ proc.exit = 0
    /\ proc.output.written
    /\ \A i \in 1..Len(PageReturned) :
         \E j \in 1..Len(proc.output.items) :
           /\ proc.output.items[j].id = PageReturned[i].id
           /\ ~PageReturned[i].Name.defined => proc.output.items[j].name = "Untitled"
           /\ ~PageReturned[i].Status.defined => proc.output.items[j].status = "No status"
           /\ ~PageReturned[i].Client.defined => proc.output.items[j].client = "Unknown"

\* The four tiers as the source names them, and the script's value for a
\* priority that is not set.
Tiers == {"URGENT", "HIGH", "MEDIUM", "LOW"}
Unset == "No priority"

\* C17: every record of the file a fetch run has written has a priority
\* that is one of the four tiers or the value for "not set", and every item
\* of the page returned has its record.
C17_PriorityClosed ==
  (proc.script = "fetch" /\ proc.output.written) =>
    /\ \A j \in 1..Len(proc.output.items) :
         proc.output.items[j].priority \in Tiers \cup {Unset}
    /\ Len(proc.output.items) = Len(PageReturned)

BadToken(r) == r.pc = "done" /\ r.hadToken /\ r.hadRunId /\ ~r.genuine

\* C19: any two requests rejected for their token got the same response,
\* status 401 and the same page, whatever run ids they named.
C19_RejectionTellsNothing ==
  \A k, j \in Requests :
    (BadToken(reqs[k]) /\ BadToken(reqs[j])) =>
      /\ reqs[k].status = 401
      /\ reqs[j].status = reqs[k].status
      /\ reqs[j].page = reqs[k].page

C19_Witness ==
  \E k, j \in Requests :
    /\ BadToken(reqs[k]) /\ BadToken(reqs[j])
    /\ reqs[k].run \in Runs /\ pr[reqs[k].run] = "merged"
    /\ reqs[j].run \in Runs /\ pr[reqs[j].run] = "none"

\* The lifecycle state of run i, read off the events that have happened:
\* the review state of its draft, a verified request naming it, a
\* downstream call that was accepted for it.
RunState(i) ==
  IF \E k \in Requests : reqs[k].run = i /\ reqs[k].calls > 0 /\ reqs[k].callOk
  THEN "DISPATCHED"
  ELSE IF \E k \in Requests : reqs[k].run = i /\ Verified(reqs[k])
  THEN "LINK_CLICKED"
  ELSE CASE pr[i] = "none" -> "NOT_STARTED"
         [] pr[i] = "open" -> "DRAFTED"
         [] pr[i] = "merged" -> "HUMAN_APPROVED"
         [] pr[i] = "closed" -> "REJECTED"

\* The steps of the lifecycle; a run enters it as DRAFTED.
LifecycleSteps ==
  { <<"NOT_STARTED", "DRAFTED">>,
    <<"DRAFTED", "HUMAN_APPROVED">>,
    <<"HUMAN_APPROVED", "LINK_CLICKED">>,
    <<"LINK_CLICKED", "DISPATCHED">>,
    <<"DRAFTED", "REJECTED">> }

\* C20: every step of the pipeline that changes the lifecycle state of a
\* run takes it from DRAFTED to HUMAN_APPROVED, from HUMAN_APPROVED to
\* LINK_CLICKED, from LINK_CLICKED to DISPATCHED or from DRAFTED to REJECTED
\* (or starts it as DRAFTED); nothing leaves REJECTED or DISPATCHED.
C20_LifecycleSteps ==
  [][\A i \in Runs :
       RunState(i)' # RunState(i) => <<RunState(i), RunState(i)'>> \in LifecycleSteps]_vars

C20_Witness ==
  \E i, j \in Runs : RunState(i) = "REJECTED" /\ RunState(j) = "DISPATCHED"

\* The messages the transport rejected in this step.
RejectedNow == {m \in outbox' \ outbox : ~m.accepted}

\* C21: a step in which the transport rejects a send changes the lifecycle
\* state of no run and leaves the job of that send failed; a run whose
\* send job is failed keeps its state in every later step (nothing in the
\* pipeline runs the job again by itself).
C21_FailedSendStalls ==
  [][/\ \A m \in RejectedNow :
          /\ \A i \in Runs : RunState(i)' = RunState(i)
          /\ m.kind = "preview" => previewJob'[m.id] = "failed"
          /\ m.kind = "broadcast" => bjob'[m.id] = "failed"
     /\ \A i \in Runs :
          previewJob[i] = "failed" =>
            /\ previewJob'[i] = "failed"
            /\ RunState(i)' = RunState(i)]_vars

C21_Witness ==
  \E i \in Runs :
    /\ \E m \in outbox : m.kind = "preview" /\ m.id = i /\ ~m.accepted
    /\ previewJob[i] = "failed"
    /\ RunState(i) = "HUMAN_APPROVED"
    /\ \E k \in Requests : reqs[k].run = i /\ reqs[k].pc = "done"
    /\ \E m \in outbox : m.kind = "broadcast" /\ ~m.accepted /\ bjob[m.id] = "failed"

\* The pieces of a document outside its two regions, markers included.
OutsideRegions(t) ==
  SelectSeq([i \in 1..Len(t) |->
               IF \/ /\ PositionOf(t, DateOpen) < i
                     /\ i < PositionOf(t, DateClose)
                  \/ /\ PositionOf(t, ContentOpen) < i
                     /\ i < PositionOf(t, ContentClose)
               THEN "" ELSE t[i]],
            LAMBDA x : x # "")

\* C22: the rendering of a template that has the markers has the markers
\* too, and outside the date and content regions it is the template, piece
\* for piece in the same order; inside them it holds the date and the
\* draft.
C22_OnlyRegionsChange ==
  (proc.script = "render" /\ proc.pc = "exited" /\ HasMarkers(proc.template)) =>
    /\ proc.exit = 0
    /\ HasMarkers(proc.output)
    /\ OutsideRegions(proc.output) = OutsideRegions(proc.template)
    /\ SubSeq(proc.output, PositionOf(proc.output, DateOpen) + 1,
              PositionOf(proc.output, DateClose) - 1) = <<proc.date>>
    /\ SubSeq(proc.output, PositionOf(proc.output, ContentOpen) + 1,
              PositionOf(proc.output, ContentClose) - 1) = proc.draft

C22_Witness ==
  /\ proc.script = "render"
  /\ proc.pc = "exited"
  /\ proc.exit = 0
  /\ proc.template[Len(proc.template)] = "<style>"
  /\ proc.template[1] = "<style>"
  /\ Len(proc.draft) = MaxItems
  /\ proc.output # proc.template

\* The checks of the run that failed.
FailedChecks == {i \in 1..Len(proc.checks) : proc.checks[i] = "fail"}

\* C23: a run of the validator that has ended made all of its checks and
\* printed the summary, and its exit code is 0 when no check failed and 1
\* when one did.
C23_ExitCodeCountsFailures ==
  (proc.script = "validate" /\ proc.pc = "exited") =>
    /\ proc.done = Len(proc.checks)
    /\ proc.summary
    /\ proc.exit = IF FailedChecks = {} THEN 0 ELSE 1

\* C24: a run of the generator started with .env.local present and without
\* --force does nothing but exit with code 1: it asks nothing and the file
\* is as it was.
C24_NoOverwriteWithoutForce ==
  (proc.script = "generate-env" /\ proc.before.exists /\ "--force" \notin proc.args) =>
    /\ proc.pc \in {"start", "exited"}
    /\ proc.pc = "exited" => proc.exit = 1
    /\ proc.prompts = 0
    /\ proc.envLocal = proc.before

C24_Witness ==
  /\ proc.script = "generate-env"
  /\ proc.before.exists
  /\ proc.args = {"--auto", "--template"}
  /\ proc.pc = "exited"
  /\ proc.exit = 1
  /\ proc.envLocal.content = "kept"

\* The messages that carry a link for run i.
LinksFor(i) ==
  {m \in outbox : HasBanner(m.mail.html) /\ RequestOf(LinkOf(m)).runId = Given(RunIdOf(i))}

\* C26: while the draft of a run is not merged (not opened, open, or
\* closed without a merge) no preview was sent for the run, no message
\* holds a link for it, no request naming it was verified or called the
\* downstream trigger, and no broadcast came from such a request.
C26_NothingBeforeApproval ==
  \A i \in Runs :
    pr[i] # "merged" =>
      /\ previewJob[i] = "none"
      /\ ~\E m \in outbox : m.kind = "preview" /\ m.id = i
      /\ LinksFor(i) = {}
      /\ \A k \in Requests :
           reqs[k].run = i =>
             /\ ~Verified(reqs[k])
             /\ reqs[k].calls = 0
             /\ bjob[k] = "none"
             /\ ~\E m \in outbox : m.kind = "broadcast" /\ m.id = k

C26_Witness ==
  \E i, j \in Runs :
    /\ pr[i] = "closed"
    /\ \E k \in Requests : reqs[k].run = i /\ reqs[k].pc = "done"
    /\ pr[j] = "merged"
    /\ LinksFor(j) # {}
    /\ \E k \in Requests : reqs[k].run = j /\ reqs[k].calls > 0

\* C27: the report a broadcast sends is the report of the run named by the
\* request that started the broadcast.
C27_BroadcastOfClickedRun ==
  \A m \in outbox :
    m.kind = "broadcast" =>
      m.file = File(Report(config.TEMPLATE, reqs[m.id].run))

\* C28: in test mode the composed HTML is the report that was read with
\* exactly one banner block added, placed right after the first opening
\* body tag (at the very start when the report has none); taking the block
\* out gives the report back.
C28_InjectOnlyAdds ==
  (proc.script = "send" /\ proc.pc = "sending" /\ IsTestEmail(proc.env)) =>
    LET original == proc.file.html
        banners == {i \in 1..Len(proc.html) : IsBanner(proc.html[i])}
    IN  /\ Cardinality(banners) = 1
        /\ SelectSeq(proc.html, LAMBDA f : ~IsBanner(f)) = original
        /\ \A i \in banners : i = BodyTagEnd(original) + 1

\* C29: when IS_TEST_EMAIL is not exactly 'true', a run of the script with
\* the approval button ends as a run of the original script does with the
\* same environment, report file and transport answer: the same exit code,
\* the same number of calls of the transport, and the same message (sender,
\* recipients, subject without the test mark, HTML).
C29_RefinesOriginal ==
  (proc.script = "send" /\ proc.pc = "exited" /\ proc.env.IS_TEST_EMAIL # True) =>
    LET original == sendEmailOriginal(proc.env, proc.file, proc.answer.ok)
    IN  /\ proc.exit = original.exit
        /\ proc.calls = Len(original.sent)
        /\ proc.calls > 0 =>
              /\ proc.mailOptions = original.sent[1]
              /\ ~proc.mailOptions.subject.test
              /\ proc.mailOptions.html = proc.file.html

C29_Witness ==
  /\ proc.script = "send" /\ proc.pc = "exited" /\ proc.exit = 0
  /\ proc.env.IS_TEST_EMAIL = <<"1">>
  /\ proc.env.APPROVAL_TOKEN_SECRET = <<>>
  /\ proc.calls = 1
  /\ proc.mailOptions.html = Report("body", 1)

OnlySeparators(value) ==
  value # <<>> /\ \A i \in 1..Len(value) : value[i] \in {",", " "}

\* C30: the transport is never given an empty recipient list or an empty or
\* untrimmed entry; with an EMAIL_RECIPIENTS of commas and spaces only the
\* script exits non-zero and the transport is not called.
C30_NeverEmptyRecipients ==
  proc.script = "send" =>
    /\ (proc.pc = "sending" \/ proc.calls > 0) =>
          /\ proc.mailOptions.to # <<>>
          /\ \A i \in 1..Len(proc.mailOptions.to) :
                LET e == proc.mailOptions.to[i]
                IN  e # <<>> /\ e[1] # " " /\ e[Len(e)] # " "
    /\ (proc.pc = "exited" /\ OnlySeparators(proc.env.EMAIL_RECIPIENTS)) =>
          proc.exit # 0 /\ proc.calls = 0

C30_Witness ==
  /\ proc.script = "send" /\ proc.pc = "exited"
  /\ proc.env.EMAIL_RECIPIENTS = <<",", " ">>
  /\ proc.reads = 1 /\ proc.exit = 1 /\ proc.calls = 0
====
